---- MODULE Spec2Model ----
(***************************************************************************)
(* Gemini-RAG-Assistant backend: the HTTP gateway (backend/main.py) and    *)
(* the provider adapter (backend/gemini_service.py).                       *)
(*                                                                         *)
(* Strings that the code inspects (file references) are sequences of       *)
(* tokens; the tokens "http", "/" and "files" stand for those exact texts, *)
(* so "/files/" is the three-token sequence Sep and overlapping            *)
(* occurrences ("/files/files/") are represented as they are in Python.    *)
(* File contents are sequences of bytes.                                   *)
(***************************************************************************)
EXTENDS Integers, Sequences, FiniteSets, TLC

MaxUploads == 2
MaxRefs == 2
MaxLen == 6

VARIABLES
    provider,       \* the provider's file store: id -> [state, display_name]
    uploadsDir,     \* os.path.exists("uploads")
    cache,          \* uploads/<filename> -> bytes (domain = the files that exist)
    task,           \* the upload coroutines: i -> [pc, ...]
    last,           \* the request just handled: inputs, provider calls, response
    uploadedNames,  \* history: filenames of every upload request received
    normIn, normStage, normOut, normOut2   \* the normalisation of one reference

vars == <<provider, uploadsDir, cache, task, last, uploadedNames,
          normIn, normStage, normOut, normOut2>>

----------------------------------------------------------------------------
(* Sequences and strings *)

Last(s) == s[Len(s)]

Sep == <<"/", "files", "/">>

\* the least index >= 1 at which Sep occurs in s, or 0 ("/files/" in s, str.find)
Find(s) ==
    LET hits == {i \in 1..Len(s) : i + 2 <= Len(s) /\ SubSeq(s, i, i + 2) = Sep}
    IN IF hits = {} THEN 0 ELSE CHOOSE i \in hits : \A j \in hits : i <= j

\* Python's s.split("/files/"): left to right, non-overlapping
RECURSIVE split(_)
split(s) ==
    LET i == Find(s)
    IN IF i = 0 THEN <<s>>
       ELSE <<SubSeq(s, 1, i - 1)>> \o split(SubSeq(s, i + 3, Len(s)))

\* a file_ids element that is not a str (file_ids is an untyped list)
NonStr == <<"#nonstr">>

isStr(fid) == fid # NonStr

startswithHttp(fid) == Len(fid) >= 1 /\ fid[1] = "http"

\* gemini_service.py:84-89 with the startswith("http") test left out
normalizeNoPrefixTest(fid) ==
    IF isStr(fid) /\ Find(fid) # 0
    THEN <<"files", "/">> \o Last(split(fid))
    ELSE fid

\* gemini_service.py:84-89, one element of clean_file_ids
normalize(fid) ==
    IF isStr(fid) /\ startswithHttp(fid) /\ Find(fid) # 0
    THEN <<"files", "/">> \o Last(split(fid))
    ELSE fid

RECURSIVE MapSeq(_, _)
MapSeq(Op(_), s) == IF s = <<>> THEN <<>> ELSE <<Op(s[1])>> \o MapSeq(Op, Tail(s))

RECURSIVE SelectApi(_, _)
SelectApi(calls, api) ==
    IF calls = <<>> THEN <<>>
    ELSE (IF calls[1].api = api THEN <<calls[1]>> ELSE <<>>) \o SelectApi(Tail(calls), api)

----------------------------------------------------------------------------
(* The provider (google.generativeai), seen through the calls the code makes *)

Ids == {ToString(i) : i \in 1..MaxUploads}

Name(id) == <<"files", "/", id>>

Uri(id) == <<"http", "s:", "/", "/", "host", "/", "v1beta", "/", "files", "/", id>>

NoRecord == [state |-> "NONE", display_name |-> ""]

Live(prov) == {id \in Ids : prov[id].state \in {"PENDING", "ACTIVE", "FAILED"}}

IdOf(name) == CHOOSE id \in Ids : name = Name(id)

Known(prov, name) == \E id \in Live(prov) : name = Name(id)

Call(api, arg) == [api |-> api, arg |-> arg]

\* genai.get_file(fid): the file's record, or an exception
get_file(prov, fid) ==
    IF Known(prov, fid)
    THEN [raised |-> FALSE, name |-> fid, state |-> prov[IdOf(fid)].state]
    ELSE [raised |-> TRUE, name |-> fid, state |-> "NONE"]

----------------------------------------------------------------------------
(* GeminiService.ask_question *)

\* lines 67-72: local roles to provider roles
GeminiRole(msg) ==
    [role |-> IF msg.role = "user" THEN "user" ELSE "model", parts |-> <<msg.content>>]

\* lines 81-90
clean_file_ids(file_ids) == MapSeq(normalize, file_ids.ids)

\* lines 92-102 without the test of the state
RECURSIVE valid_filesNoStateTest(_, _)
valid_filesNoStateTest(prov, clean) ==
    IF clean = <<>> THEN <<>>
    ELSE LET f == get_file(prov, clean[1])
         IN (IF ~f.raised THEN <<[name |-> f.name, state |-> f.state]>> ELSE <<>>)
            \o valid_filesNoStateTest(prov, Tail(clean))

\* lines 92-102: the handles that resolve and are ACTIVE; a lookup that raises is
\* logged and skipped
RECURSIVE valid_files(_, _)
valid_files(prov, clean) ==
    IF clean = <<>> THEN <<>>
    ELSE LET f == get_file(prov, clean[1])
         IN (IF ~f.raised /\ f.state = "ACTIVE"
             THEN <<[name |-> f.name, state |-> f.state]>> ELSE <<>>)
            \o valid_files(prov, Tail(clean))

\* the genai.get_file calls of lines 93-95, one per element
LookupCalls(clean) == [k \in 1..Len(clean) |-> Call("get_file", clean[k])]

\* file_ids=None, and a list of references
NoFileIds == [given |-> FALSE, ids |-> <<>>]
FileIds(ids) == [given |-> TRUE, ids |-> ids]

\* `if file_ids:` (line 79)
Truthy(file_ids) == file_ids.given /\ Len(file_ids.ids) > 0

SendError == "500 send_message failed"
LookupError == "404 file not found"
ReplyText == "answer"

\* ask_question in which a lookup that raises ends the request (no try at line 94)
ask_questionLookupRaises(prov, message, history, file_ids, sendOk) ==
    LET clean == IF Truthy(file_ids) THEN clean_file_ids(file_ids) ELSE <<>>
        bad == {k \in 1..Len(clean) : get_file(prov, clean[k]).raised}
        first == CHOOSE k \in bad : \A j \in bad : k <= j
        turn == [history |-> MapSeq(GeminiRole, history), message |-> message,
                 files |-> valid_files(prov, clean)]
    IN IF bad # {}
       THEN [calls |-> SubSeq(LookupCalls(clean), 1, first), raised |-> TRUE,
             error |-> LookupError, text |-> ""]
       ELSE [calls |-> LookupCalls(clean) \o <<Call("send_message", turn)>>,
             raised |-> ~sendOk,
             error |-> IF sendOk THEN "" ELSE SendError,
             text |-> IF sendOk THEN ReplyText ELSE ""]

\* ask_question in which a failed send is tried once more
ask_questionRetry(prov, message, history, file_ids, sendOk) ==
    LET clean == IF Truthy(file_ids) THEN clean_file_ids(file_ids) ELSE <<>>
        turn == [history |-> MapSeq(GeminiRole, history), message |-> message,
                 files |-> valid_files(prov, clean)]
        send == Call("send_message", turn)
    IN [calls |-> LookupCalls(clean) \o (IF sendOk THEN <<send>> ELSE <<send, send>>),
        raised |-> ~sendOk,
        error |-> IF sendOk THEN "" ELSE SendError,
        text |-> IF sendOk THEN ReplyText ELSE ""]

\* lines 55-120: the provider calls made, and the text returned or the exception
\* re-raised at line 120
ask_question(prov, message, history, file_ids, sendOk) ==
    LET clean == IF Truthy(file_ids) THEN clean_file_ids(file_ids) ELSE <<>>
        turn == [history |-> MapSeq(GeminiRole, history), message |-> message,
                 files |-> valid_files(prov, clean)]
    IN [calls |-> LookupCalls(clean) \o <<Call("send_message", turn)>>,
        raised |-> ~sendOk,
        error |-> IF sendOk THEN "" ELSE SendError,
        text |-> IF sendOk THEN ReplyText ELSE ""]

----------------------------------------------------------------------------
(* GeminiService.upload_file, list_files, delete_file *)

Filenames == {"a.pdf", "b.pdf"}
Contents == {<<1>>, <<1, 2>>}
ContentTypes == {"", "application/pdf"}

\* where the local save raises OSError, if it does: in os.makedirs, in open, or in
\* f.write after n bytes reached the file
IoOk == [at |-> "none", n |-> 0]
IoOutcomes(dirExists, content) ==
    {IoOk, [at |-> "open", n |-> 0]}
    \cup (IF dirExists THEN {} ELSE {[at |-> "makedirs", n |-> 0]})
    \cup {[at |-> "write", n |-> k] : k \in 0..(Len(content) - 1)}

Put(c, name, bytes) == [n \in DOMAIN c \cup {name} |-> IF n = name THEN bytes ELSE c[n]]

\* open(file_path, "ab"): the file is created if missing and keeps what it holds
OpenAppend(c, name) == Put(c, name, IF name \in DOMAIN c THEN c[name] ELSE <<>>)

\* open(file_path, "wb") (line 32): the file is created or truncated
OpenWB(c, name) == Put(c, name, <<>>)

\* f.write(bytes) (line 33) on the file just opened
Write(c, name, bytes) == Put(c, name, c[name] \o bytes)

\* lines 27-34: [dir, cache, raised]
SaveLocally(dir, c, filename, content, io) ==
    IF ~dir /\ io.at = "makedirs" THEN [dir |-> dir, cache |-> c, raised |-> TRUE]
    ELSE IF io.at = "open" THEN [dir |-> TRUE, cache |-> c, raised |-> TRUE]
    ELSE IF io.at = "write"
    THEN [dir |-> TRUE, raised |-> TRUE,
          cache |-> Write(OpenWB(c, filename), filename, SubSeq(content, 1, io.n))]
    ELSE [dir |-> TRUE, raised |-> FALSE,
          cache |-> Write(OpenWB(c, filename), filename, content)]

LocalError == "OSError"
UploadError == "500 upload failed"

FileUploadResponse(filename, file_id, mime_type, uri) ==
    [filename |-> filename, file_id |-> file_id, mime_type |-> mime_type, uri |-> uri]

\* genai.upload_file (lines 41-45): the provider stores the file under a new id
ProviderUpload(prov, id, filename) ==
    [prov EXCEPT ![id] = [state |-> "PENDING", display_name |-> filename]]

\* upload_file in which the provider upload comes before the local save
upload_fileProviderFirst(prov, dir, c, id, file, io, provOk) ==
    LET s == SaveLocally(dir, c, file.filename, file.content, io)
        mime_type == IF file.content_type # "" THEN file.content_type
                     ELSE "application/octet-stream"
        call == <<Call("upload_file", file.filename)>>
    IN IF ~provOk
       THEN [provider |-> prov, dir |-> dir, cache |-> c, calls |-> call,
             raised |-> TRUE, error |-> UploadError, result |-> <<>>]
       ELSE [provider |-> ProviderUpload(prov, id, file.filename),
             dir |-> s.dir, cache |-> s.cache, calls |-> call,
             raised |-> s.raised, error |-> IF s.raised THEN LocalError ELSE "",
             result |-> IF s.raised THEN <<>>
                        ELSE <<FileUploadResponse(file.filename, Uri(id), mime_type, Uri(id))>>]

\* lines 18-53, from the local save on (the content has been read)
upload_file(prov, dir, c, id, file, io, provOk) ==
    LET s == SaveLocally(dir, c, file.filename, file.content, io)
        mime_type == IF file.content_type # "" THEN file.content_type
                     ELSE "application/octet-stream"
        call == <<Call("upload_file", file.filename)>>
    IN IF s.raised
       THEN [provider |-> prov, dir |-> s.dir, cache |-> s.cache, calls |-> <<>>,
             raised |-> TRUE, error |-> LocalError, result |-> <<>>]
       ELSE IF ~provOk
       THEN [provider |-> prov, dir |-> s.dir, cache |-> s.cache, calls |-> call,
             raised |-> TRUE, error |-> UploadError, result |-> <<>>]
       ELSE [provider |-> ProviderUpload(prov, id, file.filename),
             dir |-> s.dir, cache |-> s.cache, calls |-> call,
             raised |-> FALSE, error |-> "",
             result |-> <<FileUploadResponse(file.filename, Uri(id), mime_type, Uri(id))>>]

ListError == "500 list_files failed"

\* lines 130-138, one record of the listing
FileEntry(prov, id) ==
    [name |-> Name(id), display_name |-> prov[id].display_name, uri |-> Uri(id),
     state |-> prov[id].state]

\* lines 122-142
list_files(prov, listOk) ==
    [calls |-> <<Call("list_files", <<>>)>>,
     raised |-> ~listOk,
     error |-> IF listOk THEN "" ELSE ListError,
     files |-> IF listOk THEN {FileEntry(prov, id) : id \in Live(prov)} ELSE {}]

DeleteError == "404 no such file"

\* lines 144-153: genai.delete_file(file_id), its exception re-raised
delete_file(prov, file_id) ==
    [calls |-> <<Call("delete_file", file_id)>>,
     raised |-> ~Known(prov, file_id),
     error |-> IF Known(prov, file_id) THEN "" ELSE DeleteError,
     provider |-> IF Known(prov, file_id)
                  THEN [prov EXCEPT ![IdOf(file_id)].state = "DELETED"]
                  ELSE prov]

----------------------------------------------------------------------------
(* The gateway, main.py *)

Json(status, key, value) == [status |-> status, kind |-> "json", key |-> key, value |-> value]

HTTPException(status_code, detail) == Json(status_code, "detail", detail)

\* an exception no route catches: the framework's plain 500 page
ServerError == [status |-> 500, kind |-> "text", key |-> "", value |-> "Internal Server Error"]

FileResponse(bytes) == [status |-> 200, kind |-> "file", key |-> "", value |-> bytes]

NotFoundLocally ==
    "File not found locally. It might have been uploaded in a previous session or deleted."

DeletedMessage(file_id) == <<"File ">> \o file_id \o <<" deleted successfully">>

\* main.py:46-49
upload(r) == IF r.raised THEN ServerError ELSE Json(200, "", r.result[1])

\* main.py:58-66
chat(r) == IF r.raised THEN ServerError ELSE Json(200, "response", r.text)

\* main.py:71-77
list_uploaded_files(r) ==
    IF r.raised THEN HTTPException(500, r.error) ELSE Json(200, "", r.files)

\* DELETE /files/{file_id} that answers the confirmation whatever the adapter did
http_delete_fileAlwaysOk(file_id, r) == Json(200, "message", DeletedMessage(file_id))

\* main.py:79-85
http_delete_file(file_id, r) ==
    IF r.raised THEN HTTPException(500, r.error)
    ELSE Json(200, "message", DeletedMessage(file_id))

\* os.path.exists("uploads/<filename>")
Exists(dir, c, filename) == dir /\ filename \in DOMAIN c

\* GET /files/view/{filename} that opens the file without testing that it exists
view_fileNoTest(dir, c, filename) ==
    IF Exists(dir, c, filename) THEN FileResponse(c[filename]) ELSE ServerError

\* main.py:87-92
view_file(dir, c, filename) ==
    IF Exists(dir, c, filename) THEN FileResponse(c[filename])
    ELSE Json(200, "message", NotFoundLocally)

\* main.py:54-56
root == Json(200, "", [status |-> "alive", message |-> "Backend is running"])

----------------------------------------------------------------------------
(* Requests *)

Tasks == 1..MaxUploads

SeqsUpTo(S, n) == UNION {[1..k -> S] : k \in 0..n}

ChatRefs == {Name(id) : id \in Ids} \cup {Uri("1")}

ChatFileIds == {NoFileIds} \cup {FileIds(ids) : ids \in SeqsUpTo(ChatRefs, MaxRefs)}

History == <<[role |-> "user", content |-> "hi"], [role |-> "assistant", content |-> "hello"]>>

Message == "Summarize page 1"

DeleteArgs == {Name(id) : id \in Ids} \cup {Uri("1"), Name("zz")}

ViewNames == Filenames \cup {"zz.pdf"}

NormTokens == {"http", "/", "files", "a"}

Idle == [op |-> "none"]

Init ==
    /\ provider = [id \in Ids |-> NoRecord]
    /\ uploadsDir = FALSE
    /\ cache = <<>>
    /\ task = [i \in Tasks |-> [pc |-> "idle"]]
    /\ last = Idle
    /\ uploadedNames = {}
    /\ normIn = <<>>
    /\ normStage = 0
    /\ normOut = <<>>
    /\ normOut2 = <<>>

normVars == <<normIn, normStage, normOut, normOut2>>

\* POST /upload arrives and upload_file awaits file.read() (line 23)
UploadBegin(i, filename, content) ==
    /\ last.op = "none"
    /\ task[i].pc = "idle"
    /\ IF i = 1 THEN TRUE ELSE task[i - 1].pc # "idle"
    /\ task' = [task EXCEPT ![i] = [pc |-> "read", filename |-> filename,
                                    content |-> content, overtaken |-> FALSE]]
    /\ uploadedNames' = uploadedNames \cup {filename}
    /\ UNCHANGED <<provider, uploadsDir, cache, last, normVars>>

\* upload_file resumes with the content: lines 27-53, then main.py:49
UploadResume(i, content_type, io, provOk) ==
    /\ last.op = "none"
    /\ task[i].pc = "read"
    /\ io \in IoOutcomes(uploadsDir, task[i].content)
    /\ LET file == [filename |-> task[i].filename, content_type |-> content_type,
                    content |-> task[i].content]
           r == upload_file(provider, uploadsDir, cache, ToString(i), file, io, provOk)
           opened == io.at \in {"none", "write"}
       IN /\ provider' = r.provider
          /\ uploadsDir' = r.dir
          /\ cache' = r.cache
          /\ task' = [j \in Tasks |->
                        IF j = i THEN [pc |-> "done"]
                        ELSE IF /\ task[j].pc = "read"
                                /\ task[j].filename = file.filename
                                /\ task[j].content # file.content
                                /\ io.at = "none"
                        THEN [task[j] EXCEPT !.overtaken = TRUE]
                        ELSE task[j]]
          /\ last' = [op |-> "upload", id |-> ToString(i), file |-> file, io |-> io,
                      provOk |-> provOk, raced |-> task[i].overtaken,
                      calls |-> r.calls, raised |-> r.raised,
                      error |-> r.error, resp |-> upload(r)]
    /\ UNCHANGED <<uploadedNames, normVars>>

\* POST /chat, main.py:58-66
Chat(file_ids, sendOk) ==
    /\ last.op = "none"
    /\ \E r \in {ask_question(provider, Message, History, file_ids, sendOk)} :
          last' = [op |-> "chat", file_ids |-> file_ids,
                   sendOk |-> sendOk, calls |-> r.calls, raised |-> r.raised,
                   error |-> r.error, resp |-> chat(r)]
    /\ UNCHANGED <<provider, uploadsDir, cache, task, uploadedNames, normVars>>

\* GET /files, main.py:71-77
ListUploadedFiles(listOk) ==
    /\ last.op = "none"
    /\ LET r == list_files(provider, listOk)
       IN last' = [op |-> "list", calls |-> r.calls, raised |-> r.raised,
                   error |-> r.error, resp |-> list_uploaded_files(r)]
    /\ UNCHANGED <<provider, uploadsDir, cache, task, uploadedNames, normVars>>

\* DELETE /files/{file_id}, main.py:79-85
DeleteFile(file_id) ==
    /\ last.op = "none"
    /\ LET r == delete_file(provider, file_id)
       IN /\ provider' = r.provider
          /\ last' = [op |-> "delete", file_id |-> file_id,
                      calls |-> r.calls, raised |-> r.raised, error |-> r.error,
                      resp |-> http_delete_file(file_id, r)]
    /\ UNCHANGED <<uploadsDir, cache, task, uploadedNames, normVars>>

\* GET /files/view/{filename}, main.py:87-92
ViewFile(filename) ==
    /\ last.op = "none"
    /\ last' = [op |-> "view", filename |-> filename, calls |-> <<>>,
                raised |-> FALSE, error |-> "",
                resp |-> view_file(uploadsDir, cache, filename)]
    /\ UNCHANGED <<provider, uploadsDir, cache, task, uploadedNames, normVars>>

\* GET /, main.py:54-56
Root ==
    /\ last.op = "none"
    /\ last' = [op |-> "root", calls |-> <<>>, raised |-> FALSE,
                error |-> "", resp |-> root]
    /\ UNCHANGED <<provider, uploadsDir, cache, task, uploadedNames, normVars>>

\* the response of the request just handled goes out to the client
Respond ==
    /\ last.op # "none"
    /\ last' = Idle
    /\ UNCHANGED <<provider, uploadsDir, cache, task, uploadedNames, normVars>>

\* the provider finishes processing a file: PENDING -> ACTIVE or PENDING -> FAILED
ProviderProcess(id, to) ==
    /\ last.op = "none"
    /\ provider[id].state = "PENDING"
    /\ provider' = [provider EXCEPT ![id].state = to]
    /\ UNCHANGED <<uploadsDir, cache, task, last, uploadedNames, normVars>>

Next ==
    \/ \E i \in Tasks, filename \in Filenames, content \in Contents :
          UploadBegin(i, filename, content)
    \/ \E i \in Tasks, content_type \in ContentTypes,
          io \in [at : {"none", "makedirs", "open", "write"}, n : 0..1],
          provOk \in BOOLEAN : UploadResume(i, content_type, io, provOk)
    \/ \E file_ids \in ChatFileIds, sendOk \in BOOLEAN : Chat(file_ids, sendOk)
    \/ \E listOk \in BOOLEAN : ListUploadedFiles(listOk)
    \/ \E file_id \in DeleteArgs : DeleteFile(file_id)
    \/ \E filename \in ViewNames : ViewFile(filename)
    \/ Root
    \/ Respond
    \/ \E id \in Ids, to \in {"ACTIVE", "FAILED"} : ProviderProcess(id, to)

Spec == Init /\ [][Next]_vars

----------------------------------------------------------------------------
(* The normalisation of one reference, applied twice *)

InitNorm ==
    /\ provider = [id \in Ids |-> NoRecord]
    /\ uploadsDir = FALSE
    /\ cache = <<>>
    /\ task = [i \in Tasks |-> [pc |-> "idle"]]
    /\ last = Idle
    /\ uploadedNames = {}
    /\ normIn \in SeqsUpTo(NormTokens, MaxLen) \cup {NonStr}
    /\ normStage = 0
    /\ normOut = <<>>
    /\ normOut2 = <<>>

mainVars == <<provider, uploadsDir, cache, task, last, uploadedNames>>

NormalizeOnce ==
    /\ normStage = 0
    /\ normOut' = normalize(normIn)
    /\ normStage' = 1
    /\ UNCHANGED <<normIn, normOut2, mainVars>>

NormalizeAgain ==
    /\ normStage = 1
    /\ normOut2' = normalize(normOut)
    /\ normStage' = 2
    /\ UNCHANGED <<normIn, normOut, mainVars>>

NextNorm == NormalizeOnce \/ NormalizeAgain

SpecNorm == InitNorm /\ [][NextNorm]_vars

----------------------------------------------------------------------------
(* Properties *)

Range(s) == {s[k] : k \in 1..Len(s)}

\* the provider's state of the file a name denotes ("NONE": it denotes none)
StateOf(prov, name) ==
    IF \E id \in Ids : name = Name(id) THEN prov[IdOf(name)].state ELSE "NONE"

\* the file handles of the turns sent in the request just handled
Attached == UNION {Range(c.arg.files) : c \in Range(SelectApi(last.calls, "send_message"))}

Count(api) == Len(SelectApi(last.calls, api))

\* C1: every handle attached to the outgoing turn of a chat request was ACTIVE when
\* it was looked up, and no reference whose file is PENDING, FAILED, deleted or
\* unknown to the provider is attached.
OnlyActiveAttached ==
    last.op = "chat" =>
        /\ \A h \in Attached : h.state = "ACTIVE" /\ StateOf(provider, h.name) = "ACTIVE"
        /\ \A fid \in Range(last.file_ids.ids) :
              StateOf(provider, normalize(fid)) # "ACTIVE"
                  => normalize(fid) \notin {h.name : h \in Attached}

\* a chat request naming an ACTIVE and a PENDING file got its reply with only the
\* ACTIVE one attached
MixedStatesChat ==
    /\ last.op = "chat"
    /\ last.resp.status = 200
    /\ \E f, g \in Range(last.file_ids.ids) :
          /\ StateOf(provider, normalize(f)) = "ACTIVE"
          /\ StateOf(provider, normalize(g)) = "PENDING"
    /\ Cardinality(Attached) = 1

\* C2: an upload whose local save fails, with a provider that accepts the file,
\* still calls the provider and answers the upload response.
UploadSurvivesLocalFailure ==
    (last.op = "upload" /\ last.io.at # "none" /\ last.provOk) =>
        /\ Count("upload_file") = 1
        /\ last.resp.status = 200
        /\ last.resp.kind = "json"
        /\ last.resp.value.filename = last.file.filename

\* C3: a chat request whose ask_question raises is answered with a 500 whose detail
\* is the failure's message, as GET /files and DELETE /files/{file_id} do.
ChatFailureCarriesMessage ==
    (last.op = "chat" /\ last.raised) =>
        /\ last.resp.status = 500
        /\ last.resp.kind = "json"
        /\ last.resp.key = "detail"
        /\ last.resp.value = last.error

\* C4: a chat request that names a file deleted before does not fail because of it:
\* the file is left out of the turn, the turn is sent once, and the reply is
\* returned unless the send itself fails.
DeletedFileDropped ==
    last.op = "chat" =>
        \A id \in Ids :
            (provider[id].state = "DELETED" /\ Name(id) \in Range(last.file_ids.ids)) =>
                /\ Name(id) \notin {h.name : h \in Attached}
                /\ Count("send_message") = 1
                /\ last.raised = ~last.sendOk
                /\ last.sendOk =>
                      /\ last.resp.status = 200
                      /\ last.resp.key = "response"
                      /\ last.resp.value = ReplyText

\* a chat request naming a deleted file got its reply
ChatAfterDelete ==
    /\ last.op = "chat"
    /\ last.resp.status = 200
    /\ \E id \in Ids :
          provider[id].state = "DELETED" /\ Name(id) \in Range(last.file_ids.ids)

\* C5: DELETE /files/{file_id} answers the confirmation exactly when the provider
\* held the file and deleted it; for an id the provider does not hold it answers a
\* 500 carrying the provider's message.
DeleteReportsMissing ==
    [][(last.op = "none" /\ last'.op = "delete") =>
          IF Known(provider, last'.file_id)
          THEN /\ last'.resp.status = 200
               /\ last'.resp.key = "message"
               /\ last'.resp.value = DeletedMessage(last'.file_id)
               /\ StateOf(provider', last'.file_id) = "DELETED"
          ELSE /\ last'.resp.status = 500
               /\ last'.resp.key = "detail"
               /\ last'.resp.value = DeleteError
               /\ provider' = provider]_vars

\* a DELETE for a file that is not on the provider (deleted before, or never there)
\* was answered 500
DeleteOfMissing ==
    /\ last.op = "delete"
    /\ last.resp.status = 500
    /\ last.raised
    /\ StateOf(provider, last.file_id) \in {"NONE", "DELETED"}

\* a reference that gets rewritten: it starts with "http" and contains "/files/"
IsUriRef(x) == startswithHttp(x) /\ Find(x) # 0

LaterWriteWins ==
    (last.op = "upload" /\ last.io.at = "none") =>
        /\ last.file.filename \in DOMAIN cache
        /\ cache[last.file.filename] = last.file.content

\* two uploads of one filename with different bytes were in flight together, and the
\* one that wrote later finished: the cache holds its bytes
ConcurrentUploadsSameName ==
    /\ last.op = "upload"
    /\ last.io.at = "none"
    /\ last.raced
    /\ cache[last.file.filename] = last.file.content

\* C8: GET /files/view/{name} answers the bytes of uploads/<name> exactly when that
\* file exists, and otherwise, so for every name never uploaded, the not-found
\* message with status 200.
ViewServesLocalCopy ==
    last.op = "view" =>
        /\ IF Exists(uploadsDir, cache, last.filename)
           THEN /\ last.resp.status = 200
                /\ last.resp.kind = "file"
                /\ last.resp.value = cache[last.filename]
           ELSE /\ last.resp.status = 200
                /\ last.resp.kind = "json"
                /\ last.resp.key = "message"
                /\ last.resp.value = NotFoundLocally
        /\ last.filename \notin uploadedNames => last.resp.kind = "json"

\* after uploads, a view of a name never uploaded was answered not-found
ViewOfNeverUploaded ==
    /\ last.op = "view"
    /\ uploadedNames # {}
    /\ DOMAIN cache # {}
    /\ last.filename \notin uploadedNames
    /\ last.resp.status = 200
    /\ last.resp.kind = "json"

\* C9: a request makes each provider call once: at most one upload call, one delete
\* call, one list call, and for a chat one lookup per reference supplied and one
\* send; a failed call is not made again.
NoRetry ==
    /\ last.op = "upload" => Len(last.calls) <= 1 /\ Count("upload_file") = Len(last.calls)
    /\ last.op = "delete" => Len(last.calls) = 1 /\ Count("delete_file") = 1
    /\ last.op = "list" => Len(last.calls) = 1 /\ Count("list_files") = 1
    /\ last.op \in {"view", "root"} => last.calls = <<>>
    /\ last.op = "chat" =>
          /\ Count("get_file") = Len(last.file_ids.ids)
          /\ \A k \in 1..Len(last.file_ids.ids) :
                /\ last.calls[k].api = "get_file"
                /\ last.calls[k].arg = normalize(last.file_ids.ids[k])
          /\ Count("send_message") = 1
          /\ Len(last.calls) = Len(last.file_ids.ids) + 1

\* a chat request with two references failed at the send
FailedSendOfChat ==
    /\ last.op = "chat"
    /\ Len(last.file_ids.ids) = 2
    /\ last.raised
    /\ last.resp.status = 500

\* C10: only an upload changes the uploads directory; no local copy is ever removed;
\* an upload whose local save succeeded leaves its copy even when the provider upload
\* fails.
CacheChangedOnlyByUpload ==
    [][/\ (cache' # cache \/ uploadsDir' # uploadsDir)
              => (last.op = "none" /\ last'.op = "upload")
       /\ DOMAIN cache \subseteq DOMAIN cache'
       /\ (last.op = "none" /\ last'.op = "upload" /\ last'.io.at = "none")
              => /\ uploadsDir'
                 /\ last'.file.filename \in DOMAIN cache'
                 /\ cache'[last'.file.filename] = last'.file.content]_vars

\* a file was uploaded, deleted from the provider, and then viewed: its bytes came
ViewAfterProviderDelete ==
    /\ last.op = "view"
    /\ last.resp.kind = "file"
    /\ \E id \in Ids :
          /\ provider[id].state = "DELETED"
          /\ provider[id].display_name = last.filename

====
